---- MODULE Spec2Model ----
(***************************************************************************)
(* The grid state of the spreadsheet component (class GridState and its    *)
(* Observable base), the paging / filtering view derived from it, and the  *)
(* notifications it emits.                                                 *)
(*                                                                         *)
(* JavaScript arrays are 0-based, TLA+ sequences 1-based: row r and column *)
(* c of the source are data[r + 1][c + 1] here, and every operation takes  *)
(* the source's 0-based indices.  Cell values, names and queries are       *)
(* strings; the JavaScript value null is the string null below.            *)
(***************************************************************************)
EXTENDS Integers, Sequences, FiniteSets, TLC

VARIABLES colsCount, colNames, colWidths, currentPage, pageSize, searchQuery,
          data, emitted, last,
          observers, invoked, job, shown,
          pending, downloaded

vars == <<colsCount, colNames, colWidths, currentPage, pageSize, searchQuery,
          data, emitted, last, observers, invoked, job, shown, pending, downloaded>>

\* the subscriber list and what surrounds the grid state: the import in
\* progress, the popup shown to the user, the connector calls of the
\* persistence service and of the toolbar that have not returned, and the
\* file the export wrote
envVars == <<observers, invoked, job, shown, pending, downloaded>>

(***************************************************************************)
(* CONFIG                                                                  *)
(***************************************************************************)
INITIAL_COLS == 10
INITIAL_ROWS == 10
DEFAULT_COL_WIDTH == 130
MIN_SIZE == 20
DEFAULT_PAGE_SIZE == 25
PAGE_SIZE_OPTIONS == {10, 25, 50, 100}
COL_NAMES == <<>>

(***************************************************************************)
(* JavaScript values and built-ins the operations use                      *)
(***************************************************************************)
null == "<null>"
\* what reading a hole of a sparse array gives (colWidths holds numbers)
undefined == -1
\* the default of updateSchema's parameter targetRowCount (a row count otherwise)
nullCount == -1

Max(a, b) == IF a >= b THEN a ELSE b

\* Math.ceil(n / p) for integers n >= 0, p >= 1
MathCeilDiv(n, p) == IF n % p = 0 THEN n \div p ELSE (n \div p) + 1

UpperLetters == "ABCDEFGHIJKLMNOPQRSTUVWXYZ"
LowerLetters == "abcdefghijklmnopqrstuvwxyz"

LowerChar(c) ==
    IF \E i \in 1..26 : SubSeq(UpperLetters, i, i) = c
    THEN LET i == CHOOSE j \in 1..26 : SubSeq(UpperLetters, j, j) = c
         IN  SubSeq(LowerLetters, i, i)
    ELSE c

\* String.prototype.toLowerCase
RECURSIVE toLowerCase(_)
toLowerCase(t) ==
    IF Len(t) = 0 THEN ""
    ELSE LowerChar(SubSeq(t, 1, 1)) \o toLowerCase(SubSeq(t, 2, Len(t)))

\* String.prototype.includes
includes(t, q) ==
    \E i \in 1..(Len(t) - Len(q) + 1) : SubSeq(t, i, i + Len(q) - 1) = q

\* (v || '') for a cell value
OrEmpty(v) == IF v = null \/ v = "" THEN "" ELSE v

\* arr[index] = v on a JavaScript array: an index past the end lengthens the
\* array and leaves holes between the old end and the new entry
ArrayAssign(arr, index, v) ==
    [i \in 1..Max(Len(arr), index + 1) |->
        IF i = index + 1 THEN v
        ELSE IF i <= Len(arr) THEN arr[i]
        ELSE undefined]

(***************************************************************************)
(* GridState.  An operation takes the object s (a record of the fields and *)
(* of the notifications emitted so far by the running handler) and gives   *)
(* the object after it.                                                    *)
(***************************************************************************)
\* Observable.subscribe
Observable_subscribe(obs, fn) == Append(obs, fn)

\* Observable.notify that calls the observers last to first
Observable_notify_lastFirst(obs, d) ==
    [k \in 1..Len(obs) |->
        [sub |-> Len(obs) + 1 - k, observer |-> obs[Len(obs) + 1 - k], data |-> d]]

\* Observable.notify: the calls forEach has made, in order, when it returns;
\* sub is the position of the subscription in the list
Observable_notify(obs, d) ==
    [k \in 1..Len(obs) |-> [sub |-> k, observer |-> obs[k], data |-> d]]

EmptyCell == [value |-> "", recordId |-> null]

EmptyRow(n) == [c \in 1..n |-> EmptyCell]

EmptyGrid(rows, cols) == [r \in 1..rows |-> EmptyRow(cols)]

\* Observable.notify: the event is handed to the observers
notify(s, event) == [s EXCEPT !.emitted = Append(@, event)]

Constructed ==
    [colsCount   |-> INITIAL_COLS,
     colNames    |-> COL_NAMES,
     colWidths   |-> [c \in 1..INITIAL_COLS |-> DEFAULT_COL_WIDTH],
     currentPage |-> 1,
     pageSize    |-> DEFAULT_PAGE_SIZE,
     searchQuery |-> "",
     data        |-> EmptyGrid(INITIAL_ROWS, INITIAL_COLS),
     emitted     |-> <<>>]

setPage(s, page) ==
    notify([s EXCEPT !.currentPage = page], [type |-> "PAGINATION_CHANGE"])

\* setPageSize that leaves the page shown as it is
setPageSize_keepsPage(s, size) ==
    notify([s EXCEPT !.pageSize = size], [type |-> "PAGINATION_CHANGE"])

setPageSize(s, size) ==
    notify([s EXCEPT !.pageSize = size, !.currentPage = 1],
           [type |-> "PAGINATION_CHANGE"])

\* setSearchQuery that leaves the page shown as it is
setSearchQuery_keepsPage(s, query) ==
    notify([s EXCEPT !.searchQuery = query], [type |-> "SEARCH_CHANGE"])

setSearchQuery(s, query) ==
    notify([s EXCEPT !.searchQuery = query, !.currentPage = 1],
           [type |-> "SEARCH_CHANGE"])

\* getFilteredData that lowers the query and not the cell values
getFilteredData_valueCase(s) ==
    LET allRows == [i \in 1..Len(s.data) |-> [row |-> s.data[i], index |-> i - 1]]
        lowerQuery == toLowerCase(s.searchQuery)
        Matches(item) ==
            \E c \in 1..Len(item.row) :
                includes(OrEmpty(item.row[c].value), lowerQuery)
    IN  IF s.searchQuery = "" THEN allRows ELSE SelectSeq(allRows, Matches)

getFilteredData(s) ==
    LET allRows == [i \in 1..Len(s.data) |-> [row |-> s.data[i], index |-> i - 1]]
        lowerQuery == toLowerCase(s.searchQuery)
        Matches(item) ==
            \E c \in 1..Len(item.row) :
                includes(toLowerCase(OrEmpty(item.row[c].value)), lowerQuery)
    IN  IF s.searchQuery = "" THEN allRows ELSE SelectSeq(allRows, Matches)

\* getTotalPages with Math.floor for Math.ceil
getTotalPages_floor(s) ==
    LET pages == Len(getFilteredData(s)) \div s.pageSize
    IN  IF pages = 0 THEN 1 ELSE pages

getTotalPages(s) ==
    LET pages == MathCeilDiv(Len(getFilteredData(s)), s.pageSize)
    IN  IF pages = 0 THEN 1 ELSE pages

\* updateSchema that resizes the grid and keeps the cells that still fit
updateSchema_keepsData(s, newColNames, targetRowCount) ==
    LET rowCount == IF targetRowCount # nullCount THEN targetRowCount ELSE Len(s.data)
        cols == Len(newColNames)
    IN  notify([s EXCEPT !.colNames  = newColNames,
                         !.colsCount = cols,
                         !.data      = [r \in 1..rowCount |-> [c \in 1..cols |->
                                           IF r <= Len(s.data) /\ c <= Len(s.data[r])
                                           THEN s.data[r][c] ELSE EmptyCell]],
                         !.colWidths = [c \in 1..cols |-> DEFAULT_COL_WIDTH]],
               [type |-> "SCHEMA_CHANGE"])

\* updateSchema that builds colWidths before it sets colsCount
updateSchema_widthsBeforeCount(s, newColNames, targetRowCount) ==
    LET rowCount == IF targetRowCount # nullCount THEN targetRowCount ELSE Len(s.data)
        cols == Len(newColNames)
    IN  notify([s EXCEPT !.colNames  = newColNames,
                         !.colsCount = cols,
                         !.data      = EmptyGrid(rowCount, cols),
                         !.colWidths = [c \in 1..s.colsCount |-> DEFAULT_COL_WIDTH]],
               [type |-> "SCHEMA_CHANGE"])

updateSchema(s, newColNames, targetRowCount) ==
    LET rowCount == IF targetRowCount # nullCount THEN targetRowCount ELSE Len(s.data)
        cols == Len(newColNames)
    IN  notify([s EXCEPT !.colNames  = newColNames,
                         !.colsCount = cols,
                         !.data      = EmptyGrid(rowCount, cols),
                         !.colWidths = [c \in 1..cols |-> DEFAULT_COL_WIDTH]],
               [type |-> "SCHEMA_CHANGE"])

\* gives the object and the flag the method returns
_ensureCapacity(s, row, col) ==
    LET rowsGrown == Max(Len(s.data), row + 1)
        \* rows are pushed with the column count before the column growth
        withRows == [r \in 1..rowsGrown |->
                        IF r <= Len(s.data) THEN s.data[r] ELSE EmptyRow(s.colsCount)]
        newColsCount == col + 1
        widen(rowData) ==
            [c \in 1..Max(Len(rowData), newColsCount) |->
                IF c <= Len(rowData) THEN rowData[c] ELSE EmptyCell]
    IN  IF col >= s.colsCount
        THEN [state |-> [s EXCEPT
                  !.data = [r \in 1..rowsGrown |-> widen(withRows[r])],
                  !.colWidths = [c \in 1..Max(Len(s.colWidths), newColsCount) |->
                                    IF c <= Len(s.colWidths) THEN s.colWidths[c]
                                    ELSE DEFAULT_COL_WIDTH],
                  !.colsCount = newColsCount],
              changed |-> TRUE]
        ELSE [state |-> [s EXCEPT !.data = withRows],
              changed |-> rowsGrown > Len(s.data)]

addRow(s) ==
    notify([s EXCEPT !.data = Append(@, EmptyRow(s.colsCount))],
           [type |-> "DATA_CHANGE"])

\* isActiveRow that looks at the values alone
isActiveRow_valuesOnly(s, rowIndex) ==
    \E c \in 1..Len(s.data[rowIndex + 1]) :
        LET cell == s.data[rowIndex + 1][c]
        IN  cell.value # null /\ cell.value # ""

isActiveRow(s, rowIndex) ==
    \E c \in 1..Len(s.data[rowIndex + 1]) :
        LET cell == s.data[rowIndex + 1][c]
        IN  (cell.value # null /\ cell.value # "") \/ cell.recordId # null

\* updateCell that writes into the row it read before the grid grew, so a
\* write that grows the grid loses its value
updateCell_staleRow(s, row, col, value, recordId, silent) ==
    LET grown == _ensureCapacity(s, row, col)
        g == grown.state
        stored == IF grown.changed THEN "" ELSE value
        written == [g EXCEPT !.data[row + 1][col + 1] =
                                 [value |-> stored,
                                  recordId |-> IF recordId # null /\ recordId # ""
                                               THEN recordId ELSE @.recordId]]
    IN  IF silent THEN written
        ELSE IF grown.changed
             THEN notify(written, [type |-> "DATA_CHANGE"])
             ELSE notify(written, [type |-> "CELL_UPDATE", row |-> row,
                                   col |-> col, value |-> value])

\* updateCell that stores the recordId argument as it is, so a call without one
\* clears the identifier the cell had
updateCell_dropsRecordId(s, row, col, value, recordId, silent) ==
    LET grown == _ensureCapacity(s, row, col)
        g == grown.state
        wasActive == IF row < Len(g.data) THEN isActiveRow(g, row) ELSE FALSE
        written == [g EXCEPT !.data[row + 1][col + 1] =
                                 [value |-> value, recordId |-> recordId]]
        isActive == isActiveRow(written, row)
    IN  IF silent THEN written
        ELSE IF wasActive # isActive \/ grown.changed
             THEN notify(written, [type |-> "DATA_CHANGE"])
             ELSE notify(written, [type |-> "CELL_UPDATE", row |-> row,
                                   col |-> col, value |-> value])

updateCell(s, row, col, value, recordId, silent) ==
    LET grown == _ensureCapacity(s, row, col)
        g == grown.state
        capacityChanged == grown.changed
        wasActive == IF row < Len(g.data) THEN isActiveRow(g, row) ELSE FALSE
        \* recordId || (existing cell's recordId)
        keptId == IF recordId # null /\ recordId # ""
                  THEN recordId
                  ELSE g.data[row + 1][col + 1].recordId
        written == [g EXCEPT !.data[row + 1][col + 1] =
                                 [value |-> value, recordId |-> keptId]]
        isActive == isActiveRow(written, row)
    IN  IF silent THEN written
        ELSE IF wasActive # isActive \/ capacityChanged
             THEN notify(written, [type |-> "DATA_CHANGE"])
             ELSE notify(written, [type |-> "CELL_UPDATE", row |-> row,
                                   col |-> col, value |-> value])

\* setColWidth that refuses the minimum width too
setColWidth_minExclusive(s, index, width) ==
    IF width <= MIN_SIZE THEN s
    ELSE notify([s EXCEPT !.colWidths = ArrayAssign(@, index, width)],
                [type |-> "DIMENSION_CHANGE"])

setColWidth(s, index, width) ==
    IF width < MIN_SIZE THEN s
    ELSE notify([s EXCEPT !.colWidths = ArrayAssign(@, index, width)],
                [type |-> "DIMENSION_CHANGE"])

\* clearAll that empties the cells and keeps schema and dimensions
clearAll_cellsOnly(s) ==
    notify([s EXCEPT !.data = [r \in 1..Len(@) |-> EmptyRow(Len(@[r]))],
                     !.currentPage = 1,
                     !.searchQuery = ""],
           [type |-> "SCHEMA_CHANGE"])

clearAll(s) ==
    notify([s EXCEPT !.colsCount   = INITIAL_COLS,
                     !.colNames    = COL_NAMES,
                     !.colWidths   = [c \in 1..INITIAL_COLS |-> DEFAULT_COL_WIDTH],
                     !.data        = EmptyGrid(INITIAL_ROWS, INITIAL_COLS),
                     !.currentPage = 1,
                     !.searchQuery = ""],
           [type |-> "SCHEMA_CHANGE"])

\* the loop of a positional base 26: A is the digit 0, so 26 gives BA
RECURSIVE plainBase26(_, _)
plainBase26(name, i) ==
    LET named == SubSeq(UpperLetters, (i % 26) + 1, (i % 26) + 1) \o name
    IN  IF i \div 26 > 0 THEN plainBase26(named, i \div 26) ELSE named

\* getColName with that loop
getColName_plainBase26(s, index) ==
    IF index < Len(s.colNames) /\ s.colNames[index + 1] # ""
    THEN s.colNames[index + 1]
    ELSE plainBase26("", index)

\* the while loop of getColName, from the values name and i have before a test
RECURSIVE colLetters(_, _)
colLetters(name, i) ==
    IF i >= 0
    THEN colLetters(SubSeq(UpperLetters, (i % 26) + 1, (i % 26) + 1) \o name,
                    (i \div 26) - 1)
    ELSE name

\* colNames[index] is undefined past the end of colNames, and '' is falsy too
getColName(s, index) ==
    IF index < Len(s.colNames) /\ s.colNames[index + 1] # ""
    THEN s.colNames[index + 1]
    ELSE colLetters("", index)

(***************************************************************************)
(* ImportExportService: the text of a paste is parsed as the code parses   *)
(* it; an uploaded file arrives as the array of rows the XLSX library      *)
(* gives.  An import is the record of the handler's local variables: table *)
(* (lines split into cells, the header line first), row (the row whose     *)
(* create call is outstanding), creates (the create calls made, each with  *)
(* the row, the payload and the identifier returned, null until then) and  *)
(* events (what the import has emitted so far).                            *)
(***************************************************************************)
Whitespace == {" ", "\t", "\n", "\r"}

\* String.prototype.trim
RECURSIVE trim(_)
trim(t) ==
    IF Len(t) = 0 THEN t
    ELSE IF SubSeq(t, 1, 1) \in Whitespace THEN trim(SubSeq(t, 2, Len(t)))
    ELSE IF SubSeq(t, Len(t), Len(t)) \in Whitespace THEN trim(SubSeq(t, 1, Len(t) - 1))
    ELSE t

\* t.split(/\r?\n/), cur being the piece read so far
RECURSIVE splitLines(_, _)
splitLines(t, cur) ==
    IF Len(t) = 0 THEN <<cur>>
    ELSE IF SubSeq(t, 1, 1) = "\n"
         THEN <<cur>> \o splitLines(SubSeq(t, 2, Len(t)), "")
    ELSE IF Len(t) >= 2 /\ SubSeq(t, 1, 2) = "\r\n"
         THEN <<cur>> \o splitLines(SubSeq(t, 3, Len(t)), "")
    ELSE splitLines(SubSeq(t, 2, Len(t)), cur \o SubSeq(t, 1, 1))

\* line.split('\t')
RECURSIVE splitTabs(_, _)
splitTabs(t, cur) ==
    IF Len(t) = 0 THEN <<cur>>
    ELSE IF SubSeq(t, 1, 1) = "\t"
         THEN <<cur>> \o splitTabs(SubSeq(t, 2, Len(t)), "")
    ELSE splitTabs(SubSeq(t, 2, Len(t)), cur \o SubSeq(t, 1, 1))

NotBlank(line) == Len(trim(line)) > 0

\* the lines of a pasted text that are not blank
pastedLines(pastedText) == SelectSeq(splitLines(pastedText, ""), NotBlank)

\* the lines split into cells
pastedTable(pastedText) ==
    LET lines == pastedLines(pastedText)
    IN  [i \in 1..Len(lines) |-> splitTabs(lines[i], "")]

\* firstLineCells.slice(1)
headersOf(table) == SubSeq(table[1], 2, Len(table[1]))

\* the message of the Error handlePaste throws, '' when it throws none
pasteError(pastedText) ==
    LET lines == pastedLines(pastedText)
        firstLineCells == splitTabs(lines[1], "")
        headers == SubSeq(firstLineCells, 2, Len(firstLineCells))
    IN  IF pastedText = "" \/ Len(trim(pastedText)) = 0
        THEN "No data found in clipboard."
        ELSE IF Len(lines) = 0 THEN "The pasted content is empty."
        ELSE IF Len(firstLineCells) < 2 /\ Len(lines) < 2
        THEN "The pasted data format is not supported. Please paste a table from Excel."
        ELSE IF Len(headers) = 0 \/ \A h \in 1..Len(headers) : trim(headers[h]) = ""
        THEN "Headers are missing or invalid."
        ELSE ""

\* the key of a column in the payload of createRecord
ColKey(col) == "col_" \o ToString(col)

\* the inner loop with updateCell not silent, as the first version of the paste
RECURSIVE writeRowFrom_notSilent(_, _, _, _)
writeRowFrom_notSilent(s, cells, row, cIdx) ==
    IF cIdx >= Len(cells) \/ cIdx - 1 >= s.colsCount THEN s
    ELSE writeRowFrom_notSilent(updateCell(s, row, cIdx - 1, cells[cIdx + 1], null, FALSE),
                                cells, row, cIdx + 1)

\* the inner loop from cIdx on: cells[cIdx] goes to column cIdx - 1, silently,
\* while the schema has that column
RECURSIVE writeRowFrom(_, _, _, _)
writeRowFrom(s, cells, row, cIdx) ==
    IF cIdx >= Len(cells) \/ cIdx - 1 >= s.colsCount THEN s
    ELSE writeRowFrom(updateCell(s, row, cIdx - 1, cells[cIdx + 1], null, TRUE),
                      cells, row, cIdx + 1)

\* rowData when the inner loop is done
rowDataOf(s, cells) ==
    LET written == {col \in 0..(Len(cells) - 2) : col < s.colsCount}
    IN  [k \in {ColKey(col) : col \in written} |->
            cells[(CHOOSE col \in written : ColKey(col) = k) + 2]]

\* the loop that gives every cell of the row the identifier
setRowRecordId(s, row, id) ==
    [s EXCEPT !.data[row + 1] =
        [c \in 1..Len(@) |-> IF c <= s.colsCount THEN [@[c] EXCEPT !.recordId = id]
                             ELSE @[c]]]

SuccessShown(j) ==
    <<[title |-> "Success", type |-> "success",
       message |-> IF j.kind = "paste" THEN "Imported data from clipboard"
                   ELSE "Imported " \o ToString(Len(j.table) - 1) \o " rows"]>>

ErrorShown(message) == <<[title |-> "Error", type |-> "error", message |-> message]>>

\* the outer loop that writes the cells of the next row too before it awaits
\* the create call of this row
importFrom_writesAhead(s, j, rIdx) ==
    IF rIdx < Len(j.table)
    THEN LET cells == j.table[rIdx + 1]
             row == rIdx - 1
             this == writeRowFrom(s, cells, row, 1)
             written == IF rIdx + 1 < Len(j.table)
                        THEN writeRowFrom(this, j.table[rIdx + 2], row + 1, 1)
                        ELSE this
         IN  [state |-> written,
              job   |-> [j EXCEPT !.pc = "awaiting", !.row = row,
                                  !.events = j.events \o written.emitted,
                                  !.creates = Append(@, [row |-> row,
                                                         payload |-> rowDataOf(this, cells),
                                                         id |-> null])],
              shown |-> <<>>]
    ELSE LET notified == notify(s, [type |-> "DATA_CHANGE"])
         IN  [state |-> notified,
              job   |-> [j EXCEPT !.pc = "done", !.events = j.events \o notified.emitted],
              shown |-> SuccessShown(j)]

\* the outer loop from rIdx on, up to the next await or to the end of the
\* import: gives the object, the import and what is shown to the user
importFrom(s, j, rIdx) ==
    IF rIdx < Len(j.table)
    THEN LET cells == j.table[rIdx + 1]
             row == rIdx - 1
             written == writeRowFrom(s, cells, row, 1)
         IN  [state |-> written,
              job   |-> [j EXCEPT !.pc = "awaiting", !.row = row,
                                  !.events = j.events \o written.emitted,
                                  !.creates = Append(@, [row |-> row,
                                                         payload |-> rowDataOf(written, cells),
                                                         id |-> null])],
              shown |-> <<>>]
    ELSE LET notified == notify(s, [type |-> "DATA_CHANGE"])
         IN  [state |-> notified,
              job   |-> [j EXCEPT !.pc = "done", !.events = j.events \o notified.emitted],
              shown |-> SuccessShown(j)]

\* an import that takes the whole first line, its first cell too, as headers
importStart_keepsFirstCell(s, kind, table) ==
    importFrom(updateSchema(s, table[1], Len(table) - 1),
               [pc |-> "awaiting", kind |-> kind, table |-> table, row |-> 0,
                events |-> <<>>, creates |-> <<>>],
               1)

\* from updateSchema to the first await
importStart(s, kind, table) ==
    importFrom(updateSchema(s, headersOf(table), Len(table) - 1),
               [pc |-> "awaiting", kind |-> kind, table |-> table, row |-> 0,
                events |-> <<>>, creates |-> <<>>],
               1)

\* the create call outstanding returned id: the paste gives the identifier to
\* the row, the upload drops it; then the loop goes on
importResume(s, j, id) ==
    LET returned == [j EXCEPT !.creates[Len(j.creates)].id = id]
        assigned == IF j.kind = "paste" THEN setRowRecordId(s, j.row, id) ELSE s
    IN  importFrom(assigned, returned, j.row + 2)

(***************************************************************************)
(* The state machine: one action per GridState operation, called on the    *)
(* current object with arguments drawn from the input sets below.  last    *)
(* records the operation called last, its arguments and, under pre, what   *)
(* the claims need of the object it was called on.                         *)
(***************************************************************************)
MaxRows == 11
\* at most this many cells of the grid hold a value or a record identifier
MaxFilled == 1
\* the Next button is not pressed past this page
MaxPage == 2

Values == {"", "x"}
Queries == {"", "X"}
RecordIds == {null, "r1"}
Schemas == {<<"a", "bcd">>}
TargetRowCounts == {nullCount, INITIAL_ROWS - 1}
PageSizeInputs == {10, 25}
Widths == {MIN_SIZE - 1, MIN_SIZE}
\* the last column the constructed grid shows a resizer for
ResizeCols == {INITIAL_COLS - 1}

\* the cells written: the first cell, and with r and c the first row and the
\* first column past the constructed grid, (r, 0) and (r, c)
CellInputs == {<<0, 0>>, <<INITIAL_ROWS, 0>>, <<INITIAL_ROWS, INITIAL_COLS>>}
\* the callers pass (value), (value, null, true) or (value, recordId)
SilentInputs(recordId) == IF recordId = null THEN BOOLEAN ELSE {FALSE}

\* the number of cells that hold a value or a record identifier
Filled(d) ==
    Cardinality({rc \in CellInputs :
                    /\ rc[1] < Len(d)
                    /\ rc[2] < Len(d[rc[1] + 1])
                    /\ d[rc[1] + 1][rc[2] + 1] # EmptyCell})

\* SpreadsheetApp subscribes the persistence service, the style system and
\* the renderer, in this order
AppObservers == <<"PersistenceService", "StyleSystem", "MainRenderer">>

\* no import has been started
NoJob == [pc |-> "idle"]

\* nothing has been exported
NoDownload == [rows |-> <<>>]

\* the object as the variables hold it, at the start of a handler
This ==
    [colsCount   |-> colsCount,
     colNames    |-> colNames,
     colWidths   |-> colWidths,
     currentPage |-> currentPage,
     pageSize    |-> pageSize,
     searchQuery |-> searchQuery,
     data        |-> data,
     emitted     |-> <<>>]

Commit(s) ==
    /\ colsCount'   = s.colsCount
    /\ colNames'    = s.colNames
    /\ colWidths'   = s.colWidths
    /\ currentPage' = s.currentPage
    /\ pageSize'    = s.pageSize
    /\ searchQuery' = s.searchQuery
    /\ data'        = s.data
    /\ emitted'     = s.emitted

Init ==
    /\ colsCount   = Constructed.colsCount
    /\ colNames    = Constructed.colNames
    /\ colWidths   = Constructed.colWidths
    /\ currentPage = Constructed.currentPage
    /\ pageSize    = Constructed.pageSize
    /\ searchQuery = Constructed.searchQuery
    /\ data        = Constructed.data
    /\ emitted     = Constructed.emitted
    /\ last        = [op |-> "constructor"]
    /\ observers   = AppObservers
    /\ invoked     = <<>>
    /\ job         = NoJob
    /\ shown       = <<>>
    /\ pending     = <<>>
    /\ downloaded  = NoDownload

\* the Previous button, enabled unless the first page is shown
PrevPage ==
    /\ currentPage # 1
    /\ Commit(setPage(This, currentPage - 1))
    /\ last' = [op |-> "setPage", page |-> currentPage - 1]
    /\ UNCHANGED envVars

\* the Next button, enabled unless the last page is shown
NextPage ==
    /\ currentPage # getTotalPages(This)
    /\ currentPage < MaxPage
    /\ Commit(setPage(This, currentPage + 1))
    /\ last' = [op |-> "setPage", page |-> currentPage + 1]
    /\ UNCHANGED envVars

SetPageSize ==
    \E size \in PageSizeInputs :
        /\ Commit(setPageSize(This, size))
        /\ last' = [op |-> "setPageSize", size |-> size,
                    pre |-> [page |-> currentPage]]
        /\ UNCHANGED envVars

SetSearchQuery ==
    \E query \in Queries :
        /\ Commit(setSearchQuery(This, query))
        /\ last' = [op |-> "setSearchQuery", query |-> query,
                    pre |-> [page |-> currentPage]]
        /\ UNCHANGED envVars

UpdateSchema ==
    \E newColNames \in Schemas, targetRowCount \in TargetRowCounts :
        /\ Commit(updateSchema(This, newColNames, targetRowCount))
        /\ last' = [op |-> "updateSchema", newColNames |-> newColNames,
                    targetRowCount |-> targetRowCount,
                    pre |-> [rows |-> Len(data), cols |-> colsCount,
                            filled |-> Filled(data), colWidths |-> colWidths]]
        /\ UNCHANGED envVars

AddRow ==
    /\ Len(data) < MaxRows
    /\ Commit(addRow(This))
    /\ last' = [op |-> "addRow"]
    /\ UNCHANGED envVars

UpdateCell ==
    \E cell \in CellInputs, value \in Values, recordId \in RecordIds :
    \E silent \in SilentInputs(recordId) :
    LET row == cell[1]
        col == cell[2]
    IN  /\ Filled(updateCell(This, row, col, value, recordId, silent).data) <= MaxFilled
        /\ Commit(updateCell(This, row, col, value, recordId, silent))
        /\ last' = [op |-> "updateCell", row |-> row, col |-> col, value |-> value,
                    recordId |-> recordId, silent |-> silent,
                    pre |-> [rows |-> Len(data), cols |-> colsCount,
                            filled |-> Filled(data)]]
        /\ UNCHANGED envVars

SetColWidth ==
    \E index \in ResizeCols, width \in Widths :
        /\ Commit(setColWidth(This, index, width))
        /\ last' = [op |-> "setColWidth", index |-> index, width |-> width]
        /\ UNCHANGED envVars

ClearAll ==
    /\ Commit(clearAll(This))
    /\ last' = [op |-> "clearAll",
                pre |-> [rows |-> Len(data), cols |-> colsCount,
                        filled |-> Filled(data), colWidths |-> colWidths]]
    /\ UNCHANGED envVars

Next ==
    \/ PrevPage
    \/ NextPage
    \/ SetPageSize
    \/ SetSearchQuery
    \/ UpdateSchema
    \/ AddRow
    \/ UpdateCell
    \/ SetColWidth
    \/ ClearAll

Spec == Init /\ [][Next]_vars

\* the variables hold the object s
Holds(s) ==
    /\ colsCount   = s.colsCount
    /\ colNames    = s.colNames
    /\ colWidths   = s.colWidths
    /\ currentPage = s.currentPage
    /\ pageSize    = s.pageSize
    /\ searchQuery = s.searchQuery
    /\ data        = s.data
    /\ emitted     = s.emitted

gridVars == <<colsCount, colNames, colWidths, currentPage, pageSize, searchQuery,
              data, emitted>>

(***************************************************************************)
(* Imports: a paste into a cell or the upload of a file, one at a time,    *)
(* between the edits of the user.  The record store answers an outstanding *)
(* create call with an identifier or with a failure.                       *)
(***************************************************************************)
PastedTexts ==
    {"", " \n", "abc", "#\t \t", "#\ta",
     "#\ta\tbcd\r\n1\tx\t\n\n2\t\tX\ty",
     "A\tB\tC\n1\t2\t3\n4\t5\t6"}
\* jsonData, the rows of the first sheet
UploadedSheets ==
    {<<>>,
     <<<<"#", "a">>>>,
     <<<<"#", "a", "bcd">>, <<"1", "x">>, <<"2", "", "X", "y">>>>}
\* the identifiers the record store returns
StoreIds == {"r1", "r2"}

\* MainRenderer's onPaste with handlePaste up to its first await, for the
\* clipboard texts of a set
PasteOf(texts) ==
    \E pastedText \in texts :
        /\ job.pc # "awaiting"
        /\ IF pasteError(pastedText) # ""
           THEN /\ Commit(clearAll(This))
                /\ shown' = ErrorShown(pasteError(pastedText))
                /\ job' = [pc |-> "failed", kind |-> "paste"]
           ELSE LET started == importStart(This, "paste", pastedTable(pastedText))
                IN  /\ Commit(started.state)
                    /\ shown' = started.shown
                    /\ job' = started.job
        /\ last' = [op |-> "onPaste", pastedText |-> pastedText, pre |-> This]
        /\ UNCHANGED <<observers, invoked, pending, downloaded>>

Paste == PasteOf(PastedTexts)

\* the reader's onload of handleFileUpload up to its first await, with onUpload
Upload ==
    \E jsonData \in UploadedSheets :
        /\ job.pc # "awaiting"
        /\ IF Len(jsonData) = 0
           THEN /\ Commit(This)
                /\ shown' = ErrorShown("File is empty")
                /\ job' = [pc |-> "failed", kind |-> "upload"]
           ELSE LET started == importStart(This, "upload", jsonData)
                IN  /\ Commit(started.state)
                    /\ shown' = started.shown
                    /\ job' = started.job
        /\ last' = [op |-> "onUpload", jsonData |-> jsonData, pre |-> This]
        /\ UNCHANGED <<observers, invoked, pending, downloaded>>

\* createRecord resolves and the import runs to its next await or to its end;
\* when the grid has lost the row of the call, the paste's write of the
\* identifier throws a TypeError (data[row] is undefined), which onPaste
\* catches as it catches a rejected call
CreateRecordReturns ==
    \E id \in StoreIds :
        /\ job.pc = "awaiting"
        /\ IF job.kind = "paste" /\ job.row >= Len(data)
           THEN /\ Commit(clearAll(This))
                /\ shown' = ErrorShown("TypeError")
                /\ job' = [job EXCEPT !.pc = "failed", !.creates[Len(job.creates)].id = id,
                                      !.events = job.events \o emitted']
           ELSE LET resumed == importResume(This, job, id)
                IN  /\ Commit(resumed.state)
                    /\ shown' = resumed.shown
                    /\ job' = resumed.job
        /\ last' = [op |-> "createRecord", id |-> id]
        /\ UNCHANGED <<observers, invoked, pending, downloaded>>

\* createRecord rejects and neither handler touches the grid
CreateRecordFails_keepsGrid ==
    /\ job.pc = "awaiting"
    /\ Commit(This)
    /\ shown' = ErrorShown("createRecord failed")
    /\ job' = [job EXCEPT !.pc = "failed", !.events = job.events \o emitted']
    /\ last' = [op |-> "createRecord", id |-> null]
    /\ UNCHANGED <<observers, invoked, pending, downloaded>>

\* createRecord rejects: onPaste shows the error and clears the grid, onUpload
\* shows the error
CreateRecordFails ==
    /\ job.pc = "awaiting"
    /\ IF job.kind = "paste" THEN Commit(clearAll(This)) ELSE Commit(This)
    /\ shown' = ErrorShown("createRecord failed")
    /\ job' = [job EXCEPT !.pc = "failed", !.events = job.events \o emitted']
    /\ last' = [op |-> "createRecord", id |-> null]
    /\ UNCHANGED <<observers, invoked, pending, downloaded>>

\* what the user does before the first import: edits of cells and a search
Edit ==
    /\ job.pc = "idle"
    /\ (UpdateCell \/ SetSearchQuery)

NextImport ==
    \/ Paste
    \/ Upload
    \/ CreateRecordReturns
    \/ CreateRecordFails
    \/ Edit

SpecImport == Init /\ [][NextImport]_vars

(***************************************************************************)
(* getFilteredData on the grids of FilterRows rows and FilterCols columns   *)
(* with values of FilterValues, under the queries of FilterQueries: the    *)
(* states updateSchema, updateCell and setSearchQuery lead to.             *)
(***************************************************************************)
FilterRows == 3
FilterCols == 2
FilterValues == {"", "aXb"}
FilterQueries == {"", "X", "xB", "bx"}

InitFilter ==
    /\ \E g \in [1..FilterRows -> [1..FilterCols -> FilterValues]] :
       \E query \in FilterQueries :
           Holds([Constructed EXCEPT
               !.colsCount   = FilterCols,
               !.colNames    = [c \in 1..FilterCols |-> "a"],
               !.colWidths   = [c \in 1..FilterCols |-> DEFAULT_COL_WIDTH],
               !.searchQuery = query,
               !.data        = [r \in 1..FilterRows |-> [c \in 1..FilterCols |->
                                   [value |-> g[r][c], recordId |-> null]]]])
    /\ last      = [op |-> "constructor"]
    /\ observers = AppObservers
    /\ invoked   = <<>>
    /\ job       = NoJob
    /\ shown     = <<>>
    /\ pending   = <<>>
    /\ downloaded = NoDownload

GetFilteredData ==
    /\ last.op = "constructor"
    /\ last' = [op |-> "getFilteredData", result |-> getFilteredData(This)]
    /\ UNCHANGED gridVars
    /\ UNCHANGED envVars

SpecFilter == InitFilter /\ [][GetFilteredData]_vars

(***************************************************************************)
(* getColName for the indices up to MaxColIndex, on the constructed grid   *)
(* and after updateSchema with the names of ColNameSchemas.                *)
(***************************************************************************)
MaxColIndex == 703
\* a pasted header line can leave a column without a name
ColNameSchemas == {<<"a", "bcd">>, <<"a", "", "b">>}

InitColName ==
    /\ \/ Holds(Constructed)
       \/ \E names \in ColNameSchemas :
              Holds([updateSchema(Constructed, names, nullCount) EXCEPT !.emitted = <<>>])
    /\ \E index \in 0..MaxColIndex : last = [op |-> "header", index |-> index]
    /\ observers = AppObservers
    /\ invoked   = <<>>
    /\ job       = NoJob
    /\ shown     = <<>>
    /\ pending   = <<>>
    /\ downloaded = NoDownload

\* the name of the column whose header is asked for
GetColName ==
    /\ last.op = "header"
    /\ last' = [op |-> "getColName", index |-> last.index,
                name |-> getColName(This, last.index)]
    /\ UNCHANGED gridVars
    /\ UNCHANGED envVars

SpecColName == InitColName /\ [][GetColName]_vars

(***************************************************************************)
(* Observable: subscribe and notify on a list of at most MaxObservers      *)
(* subscriptions.                                                          *)
(***************************************************************************)
MaxObservers == 3
EventTypes == {"PAGINATION_CHANGE", "SEARCH_CHANGE", "SCHEMA_CHANGE",
               "DATA_CHANGE", "DIMENSION_CHANGE"}

InitObservable ==
    /\ Holds(Constructed)
    /\ last      = [op |-> "constructor"]
    /\ observers = <<>>
    /\ invoked   = <<>>
    /\ job       = NoJob
    /\ shown     = <<>>
    /\ pending   = <<>>
    /\ downloaded = NoDownload

Subscribe ==
    \E fn \in {AppObservers[i] : i \in 1..Len(AppObservers)} :
        /\ Len(observers) < MaxObservers
        /\ observers' = Observable_subscribe(observers, fn)
        /\ last' = [op |-> "subscribe", fn |-> fn]
        /\ UNCHANGED <<invoked, job, shown, pending, downloaded>>
        /\ UNCHANGED gridVars

Notify ==
    \E type \in EventTypes :
        /\ invoked' = Observable_notify(observers, [type |-> type])
        /\ last' = [op |-> "notify", data |-> [type |-> type],
                    pre |-> [observers |-> observers]]
        /\ UNCHANGED <<observers, job, shown, pending, downloaded>>
        /\ UNCHANGED gridVars

NextObservable == Subscribe \/ Notify

SpecObservable == InitObservable /\ [][NextObservable]_vars

(***************************************************************************)
(* The application: the handlers of the grid and of the toolbar with the   *)
(* persistence service subscribed.  A connector call that a handler awaits *)
(* is an entry of pending from the call to its return, and the handler's   *)
(* code after the await is the action of the return; the calls return in   *)
(* any order and any handler may run in between.  An import is followed in *)
(* job, as above.                                                          *)
(***************************************************************************)
\* connector calls outstanding at a time, the one of an import not counted
MaxPending == 2

\* the cells edited: the first cell of the grid and, on its row, the first
\* column past the constructed grid
EditCells == {<<0, 0>>, <<0, INITIAL_COLS>>}
EditValues == {"x"}
\* the row of the page on which Delete is pressed
DeleteRowsInPage == {0}
AppPastedTexts == {"#\ta\n1\tx"}
\* the lengths of the grid at which Add Row is pressed: the constructed grid
\* and the grid of the import
AddRowLengths == {1, INITIAL_ROWS}

\* { [`col_${col}`]: value }
Payload(col, value) == [k \in {ColKey(col)} |-> value]
\* {}
EmptyPayload == [k \in {} |-> ""]

\* handleCellUpdate up to its await: the connector call it makes
handleCellUpdate(s, row, col, value) ==
    LET cellData == s.data[row + 1][col + 1]
    IN  IF cellData.recordId # null /\ cellData.recordId # ""
        THEN [op |-> "updateRecord", by |-> "handleCellUpdate", row |-> row,
              id |-> cellData.recordId, payload |-> Payload(col, value)]
        ELSE [op |-> "createRecord", by |-> "handleCellUpdate", row |-> row,
              id |-> null, payload |-> Payload(col, value)]

\* the subscriber of PersistenceService.init on the events of one handler
persistenceSubscriber(s) ==
    LET updates == SelectSeq(s.emitted, LAMBDA event : event.type = "CELL_UPDATE")
    IN  [i \in 1..Len(updates) |->
            handleCellUpdate(s, updates[i].row, updates[i].col, updates[i].value)]

\* deleteRowRecords that reads the identifier of the last cell of the row
deleteRowRecords_lastCell(s, row) ==
    LET recordId == s.data[row + 1][Len(s.data[row + 1])].recordId
    IN  IF recordId # null /\ recordId # ""
        THEN <<[op |-> "deleteRecord", by |-> "deleteRowRecords", row |-> row,
                id |-> recordId, payload |-> EmptyPayload]>>
        ELSE <<>>

\* deleteRowRecords up to its await: the connector call it makes, if any
deleteRowRecords(s, row) ==
    LET recordId == s.data[row + 1][1].recordId
    IN  IF recordId # null /\ recordId # ""
        THEN <<[op |-> "deleteRecord", by |-> "deleteRowRecords", row |-> row,
                id |-> recordId, payload |-> EmptyPayload]>>
        ELSE <<>>

\* getPaginatedData
getPaginatedData(s) ==
    LET filtered == getFilteredData(s)
        start == (s.currentPage - 1) * s.pageSize
        end == IF start + s.pageSize < Len(filtered) THEN start + s.pageSize
               ELSE Len(filtered)
    IN  SubSeq(filtered, start + 1, end)

\* onAddRow after its await: the row gets the identifier and the page that
\* shows the row is set
onAddRowResume(s, newIdx, id) ==
    LET assigned == setRowRecordId(s, newIdx, id)
        filtered == getFilteredData(assigned)
        found == {i \in 1..Len(filtered) : filtered[i].index = newIdx}
    IN  IF found # {}
        THEN setPage(assigned, MathCeilDiv(CHOOSE i \in found : TRUE, assigned.pageSize))
        ELSE assigned

\* pending without its k-th call
Without(calls, k) == SubSeq(calls, 1, k - 1) \o SubSeq(calls, k + 1, Len(calls))

\* the blur of a cell: updateCell, and the subscriber of the persistence
\* service on what it emits
OnBlur ==
    \E cell \in EditCells, value \in EditValues :
    LET row == cell[1]
        col == cell[2]
        updated == updateCell(This, row, col, value, null, FALSE)
    IN  /\ Len(pending) < MaxPending
        /\ Commit(updated)
        /\ pending' = pending \o persistenceSubscriber(updated)
        /\ last' = [op |-> "onBlur", row |-> row, col |-> col, value |-> value]
        /\ UNCHANGED <<observers, invoked, job, shown, downloaded>>

\* Delete or Backspace on an empty cell of a row of the page
OnKeyDownDelete ==
    \E rInPage \in DeleteRowsInPage :
        /\ Len(pending) < MaxPending
        /\ rInPage < Len(getPaginatedData(This))
        /\ LET row == getPaginatedData(This)[rInPage + 1].index
           IN  /\ \E c \in 1..Len(data[row + 1]) : OrEmpty(data[row + 1][c].value) = ""
               /\ pending' = pending \o deleteRowRecords(This, row)
               /\ last' = [op |-> "onKeyDown", key |-> "Delete", row |-> row]
        /\ Commit(This)
        /\ UNCHANGED <<observers, invoked, job, shown, downloaded>>

\* the Add Row button up to the await of createRecord({})
OnAddRow ==
    /\ Len(pending) < MaxPending
    /\ Len(data) \in AddRowLengths
    /\ Commit(addRow(This))
    /\ pending' = Append(pending, [op |-> "createRecord", by |-> "onAddRow",
                                   row |-> Len(data), id |-> null,
                                   payload |-> EmptyPayload])
    /\ last' = [op |-> "onAddRow", row |-> Len(data)]
    /\ UNCHANGED <<observers, invoked, job, shown, downloaded>>

\* the Delete All button, confirmed, up to the await of bulkDelete
OnDeleteAll ==
    /\ Len(pending) < MaxPending
    /\ Commit(This)
    /\ pending' = Append(pending, [op |-> "bulkDelete", by |-> "onDeleteAll",
                                   row |-> 0, id |-> null, payload |-> EmptyPayload])
    /\ last' = [op |-> "onDeleteAll"]
    /\ UNCHANGED <<observers, invoked, job, shown, downloaded>>

\* createRecord of handleCellUpdate returns: every cell of data[row], up to
\* colsCount, gets the identifier; data[row] undefined is a TypeError and
\* nothing is written
PersistenceCreateReturns ==
    \E k \in 1..Len(pending), id \in StoreIds :
        /\ pending[k].by = "handleCellUpdate"
        /\ pending[k].op = "createRecord"
        /\ IF pending[k].row < Len(data)
           THEN Commit(setRowRecordId(This, pending[k].row, id))
           ELSE Commit(This)
        /\ pending' = Without(pending, k)
        /\ last' = [op |-> "returned", call |-> pending[k], id |-> id,
                    threw |-> pending[k].row >= Len(data)]
        /\ UNCHANGED <<observers, invoked, job, shown, downloaded>>

\* updateRecord of handleCellUpdate returns
UpdateRecordReturns ==
    \E k \in 1..Len(pending) :
        /\ pending[k].op = "updateRecord"
        /\ Commit(This)
        /\ pending' = Without(pending, k)
        /\ last' = [op |-> "returned", call |-> pending[k], id |-> null, threw |-> FALSE]
        /\ UNCHANGED <<observers, invoked, job, shown, downloaded>>

\* deleteRecord of deleteRowRecords returns: every cell of data[row], up to
\* colsCount, loses its identifier; data[row] undefined is a TypeError
DeleteRecordReturns ==
    \E k \in 1..Len(pending) :
        /\ pending[k].op = "deleteRecord"
        /\ IF pending[k].row < Len(data)
           THEN Commit(setRowRecordId(This, pending[k].row, null))
           ELSE Commit(This)
        /\ pending' = Without(pending, k)
        /\ last' = [op |-> "returned", call |-> pending[k], id |-> null,
                    threw |-> pending[k].row >= Len(data)]
        /\ UNCHANGED <<observers, invoked, job, shown, downloaded>>

\* createRecord of onAddRow returns
AddRowCreateReturns ==
    \E k \in 1..Len(pending), id \in StoreIds :
        /\ pending[k].by = "onAddRow"
        /\ IF pending[k].row < Len(data)
           THEN Commit(onAddRowResume(This, pending[k].row, id))
           ELSE Commit(This)
        /\ pending' = Without(pending, k)
        /\ last' = [op |-> "returned", call |-> pending[k], id |-> id,
                    threw |-> pending[k].row >= Len(data)]
        /\ UNCHANGED <<observers, invoked, job, shown, downloaded>>

\* bulkDelete of onDeleteAll returns: clearAll and the popup
BulkDeleteReturns ==
    \E k \in 1..Len(pending) :
        /\ pending[k].op = "bulkDelete"
        /\ Commit(clearAll(This))
        /\ pending' = Without(pending, k)
        /\ shown' = <<[title |-> "Success", type |-> "success",
                       message |-> "All records cleared and schema reset"]>>
        /\ last' = [op |-> "returned", call |-> pending[k], id |-> null, threw |-> FALSE]
        /\ UNCHANGED <<observers, invoked, job, downloaded>>

OnPaste == PasteOf(AppPastedTexts)

NextApp ==
    \/ OnBlur
    \/ OnKeyDownDelete
    \/ OnAddRow
    \/ OnDeleteAll
    \/ OnPaste
    \/ PersistenceCreateReturns
    \/ UpdateRecordReturns
    \/ DeleteRecordReturns
    \/ AddRowCreateReturns
    \/ BulkDeleteReturns
    \/ CreateRecordReturns

SpecApp == Init /\ [][NextApp]_vars

(***************************************************************************)
(* The export and the upload of the exported file.  downloadCSV hands its  *)
(* rows to the XLSX library, which writes the file, and handleFileUpload   *)
(* gets the rows of a file from the same library; downloaded.rows are the  *)
(* rows as downloadCSV built them and downloaded.of is the grid they were  *)
(* built from.                                                             *)
(***************************************************************************)
\* downloadCSV with two header rows, a grouping row before the row of names
csvRows_twoHeaderRows(s) ==
    LET activeRows == getFilteredData(s)
    IN  <<(<<"">> \o [c \in 1..s.colsCount |-> "Group"]),
          (<<"Row No">> \o [c \in 1..s.colsCount |-> getColName(s, c - 1)])>>
        \o [i \in 1..Len(activeRows) |->
               <<ToString(activeRows[i].index + 1)>>
               \o [c \in 1..Len(activeRows[i].row) |-> OrEmpty(activeRows[i].row[c].value)]]

\* rows of downloadCSV: the header row, then for every row that
\* getFilteredData gives its number and its cell values
csvRows(s) ==
    LET activeRows == getFilteredData(s)
    IN  <<(<<"Row No">> \o [c \in 1..s.colsCount |-> getColName(s, c - 1)])>>
        \o [i \in 1..Len(activeRows) |->
               <<ToString(activeRows[i].index + 1)>>
               \o [c \in 1..Len(activeRows[i].row) |-> OrEmpty(activeRows[i].row[c].value)]]

\* the Download button
DownloadCSV ==
    /\ job.pc # "awaiting"
    /\ downloaded' = [rows |-> csvRows(This),
                      of |-> [data |-> data, colsCount |-> colsCount,
                              searchQuery |-> searchQuery]]
    /\ last' = [op |-> "downloadCSV"]
    /\ UNCHANGED gridVars
    /\ UNCHANGED <<observers, invoked, job, shown, pending>>

\* the upload of the file just exported, the grid being what it was at the
\* export: the reader's onload of handleFileUpload up to its first await
UploadDownloaded ==
    /\ job.pc # "awaiting"
    /\ downloaded # NoDownload
    /\ downloaded.of = [data |-> data, colsCount |-> colsCount, searchQuery |-> searchQuery]
    /\ LET started == importStart(This, "upload", downloaded.rows)
       IN  /\ Commit(started.state)
           /\ shown' = started.shown
           /\ job' = started.job
    /\ last' = [op |-> "onUpload", jsonData |-> downloaded.rows]
    /\ UNCHANGED <<observers, invoked, pending, downloaded>>

NextRoundTrip ==
    \/ DownloadCSV
    \/ UploadDownloaded
    \/ CreateRecordReturns

SpecRoundTrip == InitFilter /\ [][NextRoundTrip]_vars

(***************************************************************************)
(* The claims                                                              *)
(***************************************************************************)

\* C1: in every reachable state every row of data has exactly colsCount cells
\* and colWidths has exactly colsCount entries.
C1_RowsAndWidthsMatchColsCount ==
    /\ \A r \in 1..Len(data) : Len(data[r]) = colsCount
    /\ Len(colWidths) = colsCount

\* C2: after updateCell(row, col, value, ...), inside or outside the bounds the
\* grid had, the cell at (row, col) exists and its value is the written value.
C2_ReadBackWritten ==
    last.op = "updateCell" =>
        /\ last.row < Len(data)
        /\ last.col < Len(data[last.row + 1])
        /\ data[last.row + 1][last.col + 1].value = last.value

\* an updateCell whose row and column were both outside the grid wrote "x"
C2_Witness ==
    /\ last.op = "updateCell"
    /\ last.row >= last.pre.rows
    /\ last.col >= last.pre.cols
    /\ last.value = "x"
    /\ data[last.row + 1][last.col + 1].value = "x"


\* C3: an updateCell outside the bounds grows the grid so that the target
\* exists: rows are appended with empty cells, one column per missing index is
\* appended to every row and to colWidths; and no updateCell decreases the row
\* count or colsCount.
C3_GrowsToFitNeverShrinks ==
    [][last'.op = "updateCell" =>
        LET row == last'.row
            col == last'.col
            IsTarget(r, c) == r = row + 1 /\ c = col + 1
        IN  /\ Len(data') = Max(Len(data), row + 1)
            /\ colsCount' = Max(colsCount, col + 1)
            /\ \A r \in 1..Len(data') : Len(data'[r]) = colsCount'
            /\ \A r \in (Len(data) + 1)..Len(data') : \A c \in 1..colsCount' :
                   IsTarget(r, c) \/ data'[r][c] = EmptyCell
            /\ \A r \in 1..Len(data') : \A c \in (colsCount + 1)..colsCount' :
                   IsTarget(r, c) \/ data'[r][c] = EmptyCell
            /\ Len(colWidths') = Len(colWidths) + (colsCount' - colsCount)
            /\ SubSeq(colWidths', 1, Len(colWidths)) = colWidths
    ]_vars

\* C4: after a mutation that changes the filter results or the paging
\* parameters, currentPage lies in 1..getTotalPages().
C4_PageWithinTotalPages ==
    (\/ last.op \in {"setPage", "setPageSize", "setSearchQuery", "updateSchema",
                     "addRow", "clearAll"}
     \/ last.op = "updateCell" /\ searchQuery # "")
    => /\ 1 <= currentPage
       /\ currentPage <= getTotalPages(This)

\* the least k with k * p >= n: the ceiling of n / p
CeilingOf(n, p) == CHOOSE k \in 0..n : k * p >= n /\ \A j \in 0..n : j * p >= n => k <= j

\* the number of rows getFilteredData() returns
FilteredCount == Len(getFilteredData(This))

\* C5: getTotalPages() is max(1, ceil(n / pageSize)), n the number of rows
\* getFilteredData() returns.
C5_TotalPagesIsCeiling ==
    pageSize >= 1 => getTotalPages(This) = Max(1, CeilingOf(FilteredCount, pageSize))

\* a last page that is not full: 11 rows in pages of 10
C5_Witness ==
    /\ FilteredCount = INITIAL_ROWS + 1
    /\ pageSize = 10
    /\ getTotalPages(This) = 2

\* C6: after setSearchQuery(q), from any page, currentPage is 1, searchQuery is
\* q and exactly one notification, SEARCH_CHANGE, has been emitted.
C6_SearchResetsPage ==
    last.op = "setSearchQuery" =>
        /\ currentPage = 1
        /\ searchQuery = last.query
        /\ emitted = <<[type |-> "SEARCH_CHANGE"]>>

\* setSearchQuery("X") was called while page 2 was shown
C6_Witness ==
    /\ last.op = "setSearchQuery"
    /\ last.pre.page = 2
    /\ last.query = "X"
    /\ searchQuery = "X"
    /\ currentPage = 1

\* C7: setPageSize(n) sets currentPage to 1 from any page, emits
\* PAGINATION_CHANGE, and getTotalPages() is then computed from n.
C7_PageSizeResetsPage ==
    last.op = "setPageSize" =>
        /\ currentPage = 1
        /\ pageSize = last.size
        /\ emitted = <<[type |-> "PAGINATION_CHANGE"]>>
        /\ getTotalPages(This) = Max(1, CeilingOf(FilteredCount, last.size))

\* setPageSize(25) was called on page 2 of 2 (11 rows in pages of 10): one page
\* is left
C7_Witness ==
    /\ last.op = "setPageSize"
    /\ last.pre.page = 2
    /\ Len(data) = INITIAL_ROWS + 1
    /\ last.size = 25
    /\ currentPage = 1
    /\ getTotalPages(This) = 1

\* C8: updateSchema(names, n) leaves exactly n rows (the prior row count when n
\* is omitted) of exactly names.length cells, every cell with value '' and
\* recordId null, whatever the grid held before.
C8_SchemaRebuildsGrid ==
    last.op = "updateSchema" =>
        /\ Len(data) = IF last.targetRowCount = nullCount
                       THEN last.pre.rows ELSE last.targetRowCount
        /\ \A r \in 1..Len(data) :
               /\ Len(data[r]) = Len(last.newColNames)
               /\ \A c \in 1..Len(data[r]) :
                      data[r][c].value = "" /\ data[r][c].recordId = null

\* updateSchema(names, 9) was called on a grid of 11 rows that held something
C8_Witness ==
    /\ last.op = "updateSchema"
    /\ last.targetRowCount = INITIAL_ROWS - 1
    /\ last.pre.rows = INITIAL_ROWS + 1
    /\ last.pre.cols # Len(last.newColNames)
    /\ last.pre.filled > 0
    /\ Len(data) = INITIAL_ROWS - 1

\* C9 as stated: after updateSchema(names, ...) the width of a column is
\* computed from the length of its name, so two columns whose names differ in
\* length differ in width; and SCHEMA_CHANGE is emitted.
C9_WidthsFromNameLength ==
    last.op = "updateSchema" =>
        /\ emitted = <<[type |-> "SCHEMA_CHANGE"]>>
        /\ Len(colWidths) = Len(colNames)
        /\ \A i, j \in 1..Len(colNames) :
               Len(colNames[i]) # Len(colNames[j]) => colWidths[i] # colWidths[j]

\* C9 as amended: after updateSchema(names, ...) colWidths has one entry per
\* name and every entry is DEFAULT_COL_WIDTH, whatever the length of the
\* name; and exactly one notification, SCHEMA_CHANGE, is emitted.
C9_WidthsAreDefault ==
    last.op = "updateSchema" =>
        /\ emitted = <<[type |-> "SCHEMA_CHANGE"]>>
        /\ colWidths = [c \in 1..Len(last.newColNames) |-> DEFAULT_COL_WIDTH]

\* updateSchema was called with names of lengths 1 and 3 on a grid whose last
\* column had been resized
C9_Witness ==
    /\ last.op = "updateSchema"
    /\ Len(last.newColNames[1]) # Len(last.newColNames[2])
    /\ \E c \in 1..Len(last.pre.colWidths) : last.pre.colWidths[c] = MIN_SIZE
    /\ colWidths[1] = colWidths[2]

\* a row is active: a cell of it has a non-empty value or a recordId
RowActive(d, row) ==
    \E c \in 1..Len(d[row + 1]) :
        d[row + 1][c].value # "" \/ d[row + 1][c].recordId # null

\* C10: a silent updateCell emits nothing; any other emits exactly one
\* notification, DATA_CHANGE when the row's active status differs before and
\* after the write or the grid grew, and CELL_UPDATE{row, col, value} otherwise.
C10_UpdateCellNotification ==
    [][last'.op = "updateCell" =>
        LET row == last'.row
            grew == Len(data') > Len(data) \/ colsCount' > colsCount
            before == row < Len(data) /\ RowActive(data, row)
            after == RowActive(data', row)
        IN  emitted' =
                IF last'.silent THEN <<>>
                ELSE IF before # after \/ grew
                     THEN <<[type |-> "DATA_CHANGE"]>>
                     ELSE <<[type |-> "CELL_UPDATE", row |-> row,
                             col |-> last'.col, value |-> last'.value]>>
    ]_vars

\* 'x' was written, not silently, into a cell of an empty grid that has the
\* row and the column: the row turned active and DATA_CHANGE was emitted
C10_Witness ==
    /\ last.op = "updateCell"
    /\ ~last.silent
    /\ last.value = "x"
    /\ last.recordId = null
    /\ last.row < last.pre.rows
    /\ last.col < last.pre.cols
    /\ last.pre.filled = 0
    /\ emitted = <<[type |-> "DATA_CHANGE"]>>

\* the recordId of the cell at (row, col) of d, null when d has no such cell
RecordIdAt(d, row, col) ==
    IF row < Len(d) /\ col < Len(d[row + 1]) THEN d[row + 1][col + 1].recordId
    ELSE null

\* C11: updateCell without a recordId leaves the recordId of the target cell
\* as it was, updateCell with a recordId sets it to that recordId, and no
\* other cell changes its value or recordId; the cells that growth adds are
\* empty.
C11_RecordIdKeptOthersUntouched ==
    [][last'.op = "updateCell" =>
        LET row == last'.row
            col == last'.col
        IN  /\ data'[row + 1][col + 1].recordId =
                   IF last'.recordId = null THEN RecordIdAt(data, row, col)
                   ELSE last'.recordId
            /\ \A r \in 1..Len(data') : \A c \in 1..Len(data'[r]) :
                   (r # row + 1 \/ c # col + 1) =>
                       data'[r][c] = IF r <= Len(data) /\ c <= Len(data[r])
                                     THEN data[r][c] ELSE EmptyCell
    ]_vars

\* updateCell(0, 0, "x") without a recordId was called on a cell that carried
\* the identifier r1, and the cell still carries it
C11_Witness ==
    /\ last.op = "updateCell"
    /\ last.recordId = null
    /\ last.value = "x"
    /\ last.pre.filled = 1
    /\ data[last.row + 1][last.col + 1] = [value |-> "x", recordId |-> "r1"]

\* reading arr[i] of a JavaScript array
ArrayRead(arr, i) == IF i < Len(arr) THEN arr[i + 1] ELSE undefined

\* C12: setColWidth(index, width) with width < MIN_SIZE changes nothing and
\* emits nothing; with width >= MIN_SIZE, colWidths[index] is width, every
\* other width and all cell data are as before, and DIMENSION_CHANGE is emitted.
C12_SetColWidthFrame ==
    [][last'.op = "setColWidth" =>
        IF last'.width < MIN_SIZE
        THEN /\ UNCHANGED <<colsCount, colNames, colWidths, currentPage, pageSize,
                            searchQuery, data>>
             /\ emitted' = <<>>
        ELSE /\ ArrayRead(colWidths', last'.index) = last'.width
             /\ \A i \in 0..Max(Len(colWidths), Len(colWidths')) :
                    i # last'.index => ArrayRead(colWidths', i) = ArrayRead(colWidths, i)
             /\ UNCHANGED <<colsCount, colNames, currentPage, pageSize,
                            searchQuery, data>>
             /\ emitted' = <<[type |-> "DIMENSION_CHANGE"]>>
    ]_vars

\* the last column of a grid that holds a value was given the minimum width
C12_Witness ==
    /\ last.op = "setColWidth"
    /\ last.width = MIN_SIZE
    /\ Filled(data) = 1
    /\ Len(colWidths) = INITIAL_COLS
    /\ colWidths[last.index + 1] = MIN_SIZE
    /\ colWidths[1] = DEFAULT_COL_WIDTH
    /\ emitted = <<[type |-> "DIMENSION_CHANGE"]>>

\* C13: clearAll(), from any reachable state, restores colsCount, colNames,
\* colWidths and the row count to their values at construction, leaves every
\* cell with value '' and recordId null, and emits SCHEMA_CHANGE.
C13_ClearAllRestoresConstruction ==
    last.op = "clearAll" =>
        /\ colsCount = INITIAL_COLS
        /\ colNames = COL_NAMES
        /\ Len(colWidths) = INITIAL_COLS
        /\ \A c \in 1..Len(colWidths) : colWidths[c] = DEFAULT_COL_WIDTH
        /\ Len(data) = INITIAL_ROWS
        /\ \A r \in 1..Len(data) :
               /\ Len(data[r]) = INITIAL_COLS
               /\ \A c \in 1..Len(data[r]) :
                      data[r][c].value = "" /\ data[r][c].recordId = null
        /\ emitted = <<[type |-> "SCHEMA_CHANGE"]>>

\* clearAll() was called on a grid of other dimensions that held something
\* and whose widths had been changed
C13_Witness ==
    /\ last.op = "clearAll"
    /\ last.pre.rows # INITIAL_ROWS
    /\ last.pre.cols # INITIAL_COLS
    /\ last.pre.filled > 0
    /\ \E c \in 1..Len(last.pre.colWidths) : last.pre.colWidths[c] # DEFAULT_COL_WIDTH
    /\ Len(data) = INITIAL_ROWS

\* two characters are the same letter in either case, or the same character
SameIgnoringCase(a, b) ==
    \/ a = b
    \/ \E n \in 1..26 : {a, b} = {SubSeq(UpperLetters, n, n), SubSeq(LowerLetters, n, n)}

\* q occurs in v at some offset, case ignored
ContainsIgnoringCase(v, q) ==
    \E off \in 0..(Len(v) - Len(q)) :
        \A k \in 1..Len(q) :
            SameIgnoringCase(SubSeq(v, off + k, off + k), SubSeq(q, k, k))

\* C14: getFilteredData() returns, in ascending order of original index,
\* exactly the (row, original index) pairs of the rows in which some cell
\* value contains searchQuery, case ignored; every row when searchQuery is
\* empty.
C14_FilteredRowsInOrder ==
    last.op = "getFilteredData" =>
        LET f == last.result
        IN  /\ \A k \in 1..Len(f) :
                   /\ f[k].index \in 0..(Len(data) - 1)
                   /\ f[k].row = data[f[k].index + 1]
            /\ \A k \in 1..(Len(f) - 1) : f[k].index < f[k + 1].index
            /\ \A i \in 0..(Len(data) - 1) :
                   (\E k \in 1..Len(f) : f[k].index = i)
                   <=> \/ searchQuery = ""
                       \/ \E c \in 1..Len(data[i + 1]) :
                              ContainsIgnoringCase(data[i + 1][c].value, searchQuery)

\* the query xB on a grid whose first and last rows hold aXb and whose middle
\* row is empty: rows 0 and 2 are returned
C14_Witness ==
    /\ last.op = "getFilteredData"
    /\ searchQuery = "xB"
    /\ data[1][2].value = "aXb"
    /\ \A c \in 1..Len(data[2]) : data[2][c].value = ""
    /\ data[3][1].value = "aXb"
    /\ Len(last.result) = 2
    /\ last.result[1].index = 0
    /\ last.result[2].index = 2

\* the number a letter sequence stands for in bijective base 26 (A..Z are the
\* digits 1..26), less one: A is 0, Z is 25, AA is 26
RECURSIVE LetterNumber(_)
LetterNumber(name) ==
    IF Len(name) = 0 THEN 0
    ELSE LET d == SubSeq(name, Len(name), Len(name))
             digit == CHOOSE n \in 1..26 : SubSeq(UpperLetters, n, n) = d
         IN  26 * LetterNumber(SubSeq(name, 1, Len(name) - 1)) + digit

\* C15: the column name for index i is the schema name at i when the schema
\* has one, and otherwise the bijective base-26 letter sequence of i
\* (0 -> A, 25 -> Z, 26 -> AA, 27 -> AB, 701 -> ZZ, 702 -> AAA), so that distinct
\* unnamed indices get distinct names.
C15_ColumnNames ==
    last.op = "getColName" =>
        LET i == last.index
            name == last.name
        IN  IF i < Len(colNames) /\ colNames[i + 1] # ""
            THEN name = colNames[i + 1]
            ELSE /\ Len(name) >= 1
                 /\ \A k \in 1..Len(name) :
                        \E n \in 1..26 : SubSeq(name, k, k) = SubSeq(UpperLetters, n, n)
                 /\ LetterNumber(name) - 1 = i
                 /\ i = 0 => name = "A"
                 /\ i = 25 => name = "Z"
                 /\ i = 26 => name = "AA"
                 /\ i = 27 => name = "AB"
                 /\ i = 701 => name = "ZZ"
                 /\ i = 702 => name = "AAA"

\* the name of index 702, which the schema does not name, is AAA
C15_Witness ==
    /\ last.op = "getColName"
    /\ last.index = 702
    /\ Len(colNames) = 3
    /\ last.name = "AAA"

\* C16: notify(event) calls every observer subscribed so far exactly once, in
\* the order of subscription, and all the calls have been made when notify
\* returns.
C16_NotifyCallsEachInOrder ==
    last.op = "notify" =>
        /\ observers = last.pre.observers
        /\ \A i \in 1..Len(observers) :
               Cardinality({k \in 1..Len(invoked) : invoked[k].sub = i}) = 1
        /\ \A k \in 1..Len(invoked) :
               /\ invoked[k].sub \in 1..Len(observers)
               /\ invoked[k].observer = observers[invoked[k].sub]
               /\ invoked[k].data = last.data
        /\ \A k \in 1..(Len(invoked) - 1) : invoked[k].sub < invoked[k + 1].sub

\* notify was called with the three subscribers of the application
C16_Witness ==
    /\ last.op = "notify"
    /\ observers = AppObservers
    /\ Len(invoked) = 3
    /\ invoked[1].observer = "PersistenceService"
    /\ invoked[3].observer = "MainRenderer"

\* C17 as stated: after an import (paste or upload) colNames is the canonical
\* list of column names and not the header cells of the pasted or uploaded
\* content, and the grid has as many rows as there are data rows after the
\* header row.
C17_SchemaIsCanonicalList ==
    job.pc = "done" =>
        /\ colNames = COL_NAMES
        /\ Len(data) = Len(job.table) - 1

\* C17 as amended: after an import colNames is the first row of the pasted or
\* uploaded content without its first cell, colsCount is their number, and
\* the grid has as many rows as the content has rows after the first (the
\* blank lines of a paste not counted), each of colsCount cells.
C17_SchemaIsImportedHeaders ==
    job.pc = "done" =>
        /\ colNames = SubSeq(job.table[1], 2, Len(job.table[1]))
        /\ colsCount = Len(job.table[1]) - 1
        /\ Len(data) = Len(job.table) - 1
        /\ \A r \in 1..Len(data) : Len(data[r]) = colsCount

\* the paste of a header line #, a, bcd, two data lines and a blank line
\* between them is done: the schema is a, bcd and the grid has two rows
C17_Witness ==
    /\ job.pc = "done"
    /\ job.kind = "paste"
    /\ Len(job.creates) = 2
    /\ colNames = <<"a", "bcd">>
    /\ Len(data) = 2
    /\ data[2][2].value = "X"

\* C18: when an import (paste or upload) completes, every cell value of every
\* data row is in the grid, createRecord has been called exactly once per
\* data row, and every cell of an imported row carries the identifier that
\* the row's create call returned.
C18_RowsWrittenCreatedAndIdentified ==
    job.pc = "done" =>
        /\ Len(job.creates) = Len(job.table) - 1
        /\ \A r \in 1..(Len(job.table) - 1) :
               /\ Cardinality({k \in 1..Len(job.creates) : job.creates[k].row = r - 1}) = 1
               /\ \A c \in 1..colsCount :
                      /\ c + 1 <= Len(job.table[r + 1]) =>
                             data[r][c].value = job.table[r + 1][c + 1]
                      /\ \E k \in 1..Len(job.creates) :
                             /\ job.creates[k].row = r - 1
                             /\ data[r][c].recordId = job.creates[k].id

\* C19: during one import, of any number of data rows, exactly one DATA_CHANGE
\* is emitted, after the last row has been processed, and no CELL_UPDATE and
\* no DATA_CHANGE per row is emitted for the imported cells.
C19_OneDataChangeAtTheEnd ==
    [][job' # job /\ job'.pc \in {"awaiting", "done"} =>
        LET DataChanges(events) ==
                Cardinality({k \in 1..Len(events) : events[k].type = "DATA_CHANGE"})
        IN  /\ \A k \in 1..Len(emitted') : emitted'[k].type # "CELL_UPDATE"
            /\ DataChanges(emitted') = IF job'.pc = "done" THEN 1 ELSE 0
            /\ job'.pc = "done" =>
                   /\ DataChanges(job'.events) = 1
                   /\ job'.events[Len(job'.events)].type = "DATA_CHANGE"
                   /\ Len(job'.creates) = Len(job'.table) - 1
                   /\ \A k \in 1..Len(job'.creates) : job'.creates[k].id # null
    ]_vars

\* the paste of the three lines A B C, 1 2 3 and 4 5 6 is done: two create
\* calls, and SCHEMA_CHANGE and one DATA_CHANGE emitted
C19_Witness ==
    /\ job.pc = "done"
    /\ job.kind = "paste"
    /\ job.table[1] = <<"A", "B", "C">>
    /\ Len(job.creates) = 2
    /\ job.events = <<[type |-> "SCHEMA_CHANGE"], [type |-> "DATA_CHANGE"]>>
    /\ emitted = <<[type |-> "DATA_CHANGE"]>>

\* C20: after the paste of an empty or whitespace-only text an error is shown
\* to the user and cell data, schema, dimensions, currentPage and searchQuery
\* are what they were before the paste.
C20_EmptyPasteLeavesGrid ==
    (last.op = "onPaste" /\ Len(trim(last.pastedText)) = 0) =>
        /\ Len(shown) = 1
        /\ shown[1].title = "Error"
        /\ data = last.pre.data
        /\ colNames = last.pre.colNames
        /\ colsCount = last.pre.colsCount
        /\ colWidths = last.pre.colWidths
        /\ currentPage = last.pre.currentPage
        /\ searchQuery = last.pre.searchQuery

\* the create calls of the import that have not returned
Outstanding(j) ==
    IF "creates" \in DOMAIN j /\ j.pc = "awaiting"
    THEN {k \in 1..Len(j.creates) : j.creates[k].id = null}
    ELSE {}

\* no cell of the row holds a value or an identifier
RowUntouched(d, row) ==
    row < Len(d) => \A c \in 1..Len(d[row + 1]) : d[row + 1][c] = EmptyCell

\* C23: within one import the create calls are issued row by row: the k-th
\* call is for data row k - 1, every call before the last one has returned,
\* at most one call is outstanding, and while the call of row i is outstanding
\* no cell of a row after i has been written.
C23_ImportIsSequential ==
    "creates" \in DOMAIN job =>
        /\ \A k \in 1..Len(job.creates) :
              /\ job.creates[k].row = k - 1
              /\ k < Len(job.creates) => job.creates[k].id # null
        /\ Cardinality(Outstanding(job)) <= 1
        /\ job.pc = "awaiting" =>
              /\ Outstanding(job) = {job.row + 1}
              /\ \A row \in (job.row + 1)..(Len(data) - 1) : RowUntouched(data, row)

\* the create call of the first of two data rows is outstanding, the first
\* row is written and the second row, which has values to come, is not
C23_Witness ==
    /\ job.pc = "awaiting"
    /\ job.row = 0
    /\ Len(job.table) = 3
    /\ job.table[3][2] # ""
    /\ data[1][1].value = job.table[2][2]
    /\ Len(data) = 2
    /\ RowUntouched(data, 1)

\* the create call of data row job.row was rejected
FailedAtCreate == job.pc = "failed" /\ "creates" \in DOMAIN job

\* no create call was issued after the one that failed, and no row after the
\* row of that call holds a value or an identifier
NothingAfterFailure ==
    /\ Len(job.creates) = job.row + 1
    /\ job.creates[job.row + 1].id = null
    /\ \A row \in (job.row + 1)..(Len(data) - 1) : RowUntouched(data, row)

\* the data rows up to the one whose create call failed hold the imported values
RowsUpToFailureKept ==
    \A r \in 1..(job.row + 1) :
        /\ r <= Len(data)
        /\ \A c \in 1..colsCount :
               c + 1 <= Len(job.table[r + 1]) =>
                   /\ c <= Len(data[r])
                   /\ data[r][c].value = job.table[r + 1][c + 1]

\* C24 as stated: when the create call of data row k fails during an import
\* (paste or upload), no later row is written or created and the rows written
\* up to the failure keep their imported values.
C24_FailureLeavesPartialGrid ==
    FailedAtCreate => (NothingAfterFailure /\ RowsUpToFailureKept)

\* C24 as amended: when the create call of data row k fails during an import,
\* no later row is written or created; after a file upload the rows written up
\* to the failure keep their imported values, and after a paste the handler
\* has cleared the grid: the constructed schema and rows, every cell empty.
C24_FailureKeepsUploadClearsPaste ==
    FailedAtCreate =>
        /\ NothingAfterFailure
        /\ Len(shown) = 1 /\ shown[1].title = "Error"
        /\ job.kind = "upload" => RowsUpToFailureKept
        /\ job.kind = "paste" =>
               /\ data = EmptyGrid(INITIAL_ROWS, INITIAL_COLS)
               /\ colsCount = INITIAL_COLS
               /\ colNames = COL_NAMES

\* the create call of the second data row of a paste failed after the first
\* row had been written and created: the grid is the cleared one
C24_Witness ==
    /\ FailedAtCreate
    /\ job.kind = "paste"
    /\ job.row = 1
    /\ job.creates[1].id # null
    /\ job.table[2][2] # ""
    /\ data = EmptyGrid(INITIAL_ROWS, INITIAL_COLS)

\* the import of the exported file is done
ReimportDone ==
    /\ job.pc = "done"
    /\ "rows" \in DOMAIN downloaded
    /\ "of" \in DOMAIN downloaded
    /\ job.table = downloaded.rows

\* the same number of rows, and the same value in every cell
SameValues(d, e) ==
    /\ Len(d) = Len(e)
    /\ \A r \in 1..Len(d) :
          /\ Len(d[r]) = Len(e[r])
          /\ \A c \in 1..Len(d[r]) : d[r][c].value = e[r][c].value

\* the rows of the exported grid that its search query hides
HiddenRows(of) ==
    {r \in 0..(Len(of.data) - 1) :
        \A i \in 1..Len(getFilteredData([data |-> of.data, searchQuery |-> of.searchQuery])) :
            getFilteredData([data |-> of.data, searchQuery |-> of.searchQuery])[i].index # r}

RowIds(d, row) ==
    IF row < Len(d)
    THEN {d[row + 1][c].recordId : c \in 1..Len(d[row + 1])} \ {null}
    ELSE {}

\* the step is the blur of a cell that emitted CELL_UPDATE
CellUpdateStep ==
    /\ last'.op = "onBlur"
    /\ \E i \in 1..Len(emitted') : emitted'[i].type = "CELL_UPDATE"

\* the step issued exactly the call: nothing else joined the calls outstanding
Issued(call) == pending' = Append(pending, call)

\* C21: on a CELL_UPDATE notification the persistence service calls
\* updateRecord with the row's recordId when the row of the edited cell has
\* one and createRecord otherwise, with the payload col_<col> -> value; when
\* that createRecord returns, every cell of the row carries the returned
\* identifier.
C21_CellUpdateUpdatesOrCreates ==
    [][/\ CellUpdateStep =>
              IF RowIds(data, last'.row) # {}
              THEN \E id \in RowIds(data, last'.row) :
                       Issued([op |-> "updateRecord", by |-> "handleCellUpdate",
                               row |-> last'.row, id |-> id,
                               payload |-> Payload(last'.col, last'.value)])
              ELSE Issued([op |-> "createRecord", by |-> "handleCellUpdate",
                           row |-> last'.row, id |-> null,
                           payload |-> Payload(last'.col, last'.value)])
       /\ (/\ last'.op = "returned"
           /\ last'.call.by = "handleCellUpdate"
           /\ last'.call.op = "createRecord") =>
              /\ last'.call.row < Len(data')
              /\ \A c \in 1..Len(data'[last'.call.row + 1]) :
                     data'[last'.call.row + 1][c].recordId = last'.id]_vars

\* the step is the return of deleteRecord to deleteRowRecords
DeleteReturnStep == last'.op = "returned" /\ last'.call.op = "deleteRecord"

\* C22: row deletion on a row in which a cell has a recordId calls
\* deleteRecord for that identifier and changes nothing in the grid; when the
\* call returns, every cell of the row has recordId null, and the values of
\* its cells and all other rows are what they were.
C22_RowDeletionClearsRecordIds ==
    [][/\ (last'.op = "onKeyDown" /\ RowIds(data, last'.row) # {}) =>
              /\ \E id \in RowIds(data, last'.row) :
                     Issued([op |-> "deleteRecord", by |-> "deleteRowRecords",
                             row |-> last'.row, id |-> id, payload |-> EmptyPayload])
              /\ data' = data
       /\ (DeleteReturnStep /\ last'.call.row < Len(data)) =>
              /\ \A c \in 1..Len(data'[last'.call.row + 1]) :
                     data'[last'.call.row + 1][c].recordId = null
              /\ Len(data') = Len(data)
              /\ \A r \in 1..Len(data) :
                     /\ Len(data'[r]) = Len(data[r])
                     /\ \A c \in 1..Len(data[r]) :
                            /\ data'[r][c].value = data[r][c].value
                            /\ r # last'.call.row + 1 => data'[r][c] = data[r][c]]_vars

\* deleteRecord has returned for a row that held a value and, on every cell,
\* an identifier: the value is there and no cell of the row has an identifier
C22_Witness ==
    /\ last.op = "returned"
    /\ last.call.op = "deleteRecord"
    /\ last.call.id # null
    /\ ~last.threw
    /\ data[last.call.row + 1][1].value = "x"
    /\ RowIds(data, last.call.row) = {}

\* C26: in every reachable state all the cells of a row carry the same
\* recordId, null or an identifier.
C26_RowSharesOneRecordId ==
    \A r \in 1..Len(data) :
        \A c1, c2 \in 1..Len(data[r]) : data[r][c1].recordId = data[r][c2].recordId

\* C27: every blur edit issues exactly one connector call for its row:
\* updateRecord when the row has a recordId, createRecord otherwise.
C27_EveryEditIssuesOneCall ==
    [][last'.op = "onBlur" =>
          /\ Len(pending') = Len(pending) + 1
          /\ pending'[Len(pending')].row = last'.row
          /\ pending'[Len(pending')].op =
                 IF RowIds(data, last'.row) # {} THEN "updateRecord" ELSE "createRecord"]_vars

\* the createRecord calls of handleCellUpdate for the row that have not returned
CreatesOutstanding(row) ==
    {k \in 1..Len(pending) :
        /\ pending[k].by = "handleCellUpdate"
        /\ pending[k].op = "createRecord"
        /\ pending[k].row = row}

\* C28: for no row are two createRecord calls of the persistence service
\* outstanding: edits of a row made before its first createRecord has
\* returned issue no further createRecord.
C28_OneCreatePerRow ==
    \A row \in 0..(MaxRows - 1) : Cardinality(CreatesOutstanding(row)) <= 1

\* C29: no return of a connector call finds its row gone: the write of the
\* identifier after a createRecord of the persistence service, of Add Row or
\* of a paste never throws for a row index past the grid.
C29_CompletionFindsItsRow ==
    /\ last.op = "returned" => ~last.threw
    /\ ~(job.pc = "failed" /\ shown = ErrorShown("TypeError"))

\* C30: in every reachable state every entry of colWidths is at least
\* MIN_SIZE, after any sequence of resizes, schema updates, capacity growth
\* and clearAll.
C30_WidthsAtLeastMinSize ==
    \A c \in 1..Len(colWidths) : colWidths[c] >= MIN_SIZE

====
